---- MODULE Spec2Model ----
(***************************************************************************)
(* Model of attackmate's execution core:                                   *)
(*   - BaseExecutor (src/attackmate/baseexecutor.py): run / exec /         *)
(*     error_if / error_if_not / loop_if / loop_if_not / variable_to_int   *)
(*   - MsfSessionStore (src/attackmate/msfsessionstore.py)                 *)
(*                                                                         *)
(* Text is a sequence of one-character strings.  Regular expressions are   *)
(* restricted to literal patterns, for which re.search is a substring      *)
(* search (re.MULTILINE only changes ^ and $).                             *)
(***************************************************************************)
EXTENDS Integers, Sequences, FiniteSets, TLC

\* ------------------------------------------------------------------ bounds
\* largest numeric loop_count a command carries
MaxLoopCount == 3

\* ------------------------------------------------------------- basic values
\* Python's None for an optional text field; no text equals it, because the
\* elements of a text are single characters
None == <<"None">>

\* a Python str object
Str(t) == [type |-> "str", text |-> t]

\* an ExecException object carrying the message t
Exc(t) == [type |-> "ExecException", text |-> t]

\* a variable the store does not hold, a file not written
Unset == [type |-> "unset", text |-> <<>>]

\* the object None held as a value; its text is str(None)
NoneValue == [type |-> "NoneType", text |-> <<"N", "o", "n", "e">>]

Digits == <<"0", "1", "2", "3", "4", "5", "6", "7", "8", "9">>

\* value of the decimal digit character c
DigitValue(c) == (CHOOSE i \in 1..10 : Digits[i] = c) - 1

\* str.isnumeric() on ASCII text: non-empty and made of decimal digits only
IsNumeric(value) ==
    /\ Len(value) > 0
    /\ \A i \in 1..Len(value) : \E d \in 1..10 : Digits[d] = value[i]

RECURSIVE ParseInt(_)
\* int(value) for a text of decimal digits
ParseInt(value) ==
    IF Len(value) = 0 THEN 0
    ELSE 10 * ParseInt(SubSeq(value, 1, Len(value) - 1))
         + DigitValue(value[Len(value)])

RECURSIVE IntToText(_)
\* str(n) for a non-negative integer n
IntToText(n) ==
    IF n < 10 THEN <<Digits[n + 1]>>
    ELSE IntToText(n \div 10) \o <<Digits[(n % 10) + 1]>>

\* re.search(pattern, string, re.MULTILINE) is not None, literal pattern
Search(pattern, string) ==
    \E i \in 1..(Len(string) - Len(pattern) + 1) :
        SubSeq(string, i, i + Len(pattern) - 1) = pattern

\* ---------------------------------------------------------- variable store
VarNames == {"RESULT_STDOUT", "RESULT_RETURNCODE", "LAST_MSF_SESSION", "TARGET"}

\* the reference character that names each variable inside a template:
\* "%" stands for $RESULT_RETURNCODE, "@" for $TARGET, "?" for $RESULT_STDOUT
RefName(c) ==
    CASE c = "%" -> "RESULT_RETURNCODE"
      [] c = "@" -> "TARGET"
      [] c = "?" -> "RESULT_STDOUT"
      [] OTHER -> "none"

\* VariableStore.set_variable
set_variable(store, name, value) == [store EXCEPT ![name] = value]

RECURSIVE substitute(_, _)
\* VariableStore.substitute: every reference to a held variable is replaced
\* by the text of its value, other characters are kept
substitute(store, text) ==
    IF Len(text) = 0 THEN <<>>
    ELSE LET c == Head(text)
             n == RefName(c)
         IN  (IF n # "none" /\ store[n].type # "unset"
                 THEN store[n].text ELSE <<c>>)
             \o substitute(store, Tail(text))

\* ------------------------------------------------------------- the command
\* BaseCommand.list_template_vars: the members eligible for substitution
list_template_vars == {"cmd", "loop_count", "options"}

\* substitution of every string value of a dict member
SubstituteDict(store, d) == [k \in DOMAIN d |-> substitute(store, d[k])]

\* the copy replace_variables builds: deepcopy of command with every
\* template member replaced
TemplateOf(store, command) ==
    [command EXCEPT
        !.cmd = IF "cmd" \in list_template_vars
                THEN substitute(store, @) ELSE @,
        !.loop_count = IF "loop_count" \in list_template_vars
                       THEN substitute(store, @) ELSE @,
        !.options = IF "options" \in list_template_vars
                    THEN SubstituteDict(store, @) ELSE @]

\* a replace_variables that substitutes in place, on the caller's object
replace_variables_inplace(store, command) ==
    [command |-> TemplateOf(store, command),
     template_cmd |-> TemplateOf(store, command)]

\* BaseExecutor.replace_variables: the caller's object after the call and the
\* object returned
replace_variables(store, command) ==
    [command |-> command,
     template_cmd |-> TemplateOf(store, command)]

\* what variable_to_int yields when it raises ExecException
NotNumeric == -1

\* a variable_to_int that takes a non-numeric value for 0
variable_to_int_default(value) ==
    IF IsNumeric(value) THEN ParseInt(value) ELSE 0

\* BaseExecutor.variable_to_int
variable_to_int(value) ==
    IF IsNumeric(value) THEN ParseInt(value) ELSE NotNumeric

\* ------------------------------------------------------------------ state
VARIABLES
    command,     \* the BaseCommand object the caller passes to run()
    varstore,    \* VariableStore.variables
    run_count,   \* BaseExecutor.run_count (0: attribute not set yet)
    stack,       \* activations of exec(), outermost first
    status,      \* how the current run() call stands
    files,       \* content of the file command.save names
    calls,       \* invocations of _exec_cmd in the current run() call
    sleeps,      \* time.sleep(loop_sleep) calls in the current run() call
    sessions,    \* MsfSessionStore.sessions of the owner process
    attached,    \* whether the owner's MsfSessionStore.queue is set
    queue,       \* the pairs in the pipe of the queue the processes share
    feeder,      \* how often each pair waits in the put buffer of a worker
    registry,    \* msfsessions.list, in iteration order
    next_handle, \* the session id the framework hands out next
    proc,        \* what the owner (0) and each worker process is doing
    pushed,      \* how often each (name, uuid) pair was put on the queue
    merged,      \* how often each pair was taken off the queue and merged
    handed       \* pushed, as it was when the owner's lookup began

storeVars == <<sessions, attached, queue, feeder, registry, next_handle, proc,
               pushed, merged, handed>>

vars == <<command, varstore, run_count, stack, status, files, calls, sleeps,
          sessions, attached, queue, feeder, registry, next_handle, proc,
          pushed, merged, handed>>

\* ----------------------------------------------------------------- inputs
ErrorIfPattern == <<"E", "R">>
ErrorIfNotPattern == <<"O">>
LoopIfPattern == <<"L">>
LoopIfNotPattern == <<"O", "K">>

\* the loop_count texts a playbook supplies
LoopCounts ==
    {IntToText(n) : n \in 0..MaxLoopCount} \cup {<<"a", "b", "c">>, <<"-", "1">>}

SavePath == <<"f">>

\* the commands handed to run()
Commands ==
    [cmd : {<<"c", "@", "%">>},
     options : {[RHOSTS |-> <<"@">>]},
     save : {None, SavePath},
     exit_on_error : BOOLEAN,
     error_if : {None, ErrorIfPattern},
     error_if_not : {None, ErrorIfNotPattern},
     loop_if : {None, LoopIfPattern},
     loop_if_not : {None, LoopIfNotPattern},
     loop_count : LoopCounts]

\* Result(stdout, returncode)
Result(stdout, returncode) == [stdout |-> stdout, returncode |-> returncode]

\* BaseExecutor._exec_cmd: Result(None, None). The returncode None is held
\* as -1: like None it differs from 0, and str() of it is "None"
NoResult == Result(NoneValue, -1)

\* what one call of _exec_cmd can do: return Result(stdout, returncode) as a
\* backend does, return Result(None, None) as BaseExecutor's own _exec_cmd
\* does (stdout None), or raise ExecException(stdout)
Outcomes ==
    {[raised |-> FALSE, stdout |-> <<"O", "K">>, returncode |-> 0],
     [raised |-> FALSE, stdout |-> <<"L", "O", "K">>, returncode |-> 0],
     [raised |-> FALSE, stdout |-> <<"K", "O">>, returncode |-> 1],
     [raised |-> FALSE, stdout |-> <<"E", "R", "L">>, returncode |-> 1],
     [raised |-> FALSE, stdout |-> <<"E", "R", "L", "O", "K">>, returncode |-> 0],
     [raised |-> FALSE, stdout |-> None, returncode |-> NoResult.returncode],
     [raised |-> TRUE, stdout |-> <<"E", "R", "L">>, returncode |-> 1]}

\* str(result.returncode)
ReturncodeText(returncode) ==
    IF returncode = NoResult.returncode THEN NoneValue.text
    ELSE IntToText(returncode)

\* one activation of exec(command); attempt is the number of the _exec_cmd
\* call that produced result, before the store and the file as that call
\* found them
Frame(cmd, pc) ==
    [command |-> cmd, result |-> NoResult, pc |-> pc, attempt |-> 0,
     before |-> [varstore |-> varstore, files |-> files]]

Top == stack[Len(stack)]

\* the stack with its top activation replaced
SetTop(f) == [stack EXCEPT ![Len(stack)] = f]

Running == status = "running" /\ Len(stack) > 0

\* ---------------------------------------------------------- session store
\* worker processes that discover sessions in the background
NumWorkers == 2
\* sessions the framework creates in one behaviour
MaxHandles == 2

Owner == 0
Workers == 1..NumWorkers
Procs == {Owner} \cup Workers

\* logical session names of a playbook
Names == {"a", "b"}

\* correlation ids (exploit_uuid) the framework assigns
Uuids == {"u1", "u2"}

\* no entry of the directory under a name
NoUuid == "none"

\* no session handle
NoHandle == 0

\* the name worker w was started for
WorkerName(w) == IF w % 2 = 1 THEN "a" ELSE "b"

\* the correlation id of the exploit worker w launched
WorkerUuid(w) == IF w = 1 THEN "u1" ELSE "u2"

\* the (name, exploit_uuid) pairs a process can put on the queue
Pairs == Names \X Uuids

\* a process that runs no operation of the store; slept tells whether the
\* operation it runs has called time.sleep, result is the session id
\* get_session_by_name returned, stored_list_len and snapshot are the locals of
\* wait_for_increased_session, first_id is the id the framework was going to
\* hand out next when that call began
IdleProc ==
    [pc |-> "idle", name |-> "a", uuid |-> NoUuid, block |-> FALSE,
     result |-> NoHandle, slept |-> FALSE,
     stored_list_len |-> 0, snapshot |-> {}, first_id |-> 0]

\* MsfSessionStore.__init__, an empty registry and idle processes
StoreInit ==
    /\ sessions = [n \in Names |-> NoUuid]
    /\ queue = <<>>
    /\ feeder = [pr \in Pairs |-> 0]
    /\ registry = <<>>
    /\ next_handle = 1
    /\ proc = [p \in Procs |-> IdleProc]
    /\ pushed = [pr \in Pairs |-> 0]
    /\ merged = [pr \in Pairs |-> 0]
    /\ handed = [pr \in Pairs |-> 0]

Init ==
    /\ command \in Commands
    /\ varstore = [n \in VarNames |-> IF n = "TARGET" THEN Str(<<"t">>) ELSE Unset]
    /\ run_count = 0
    /\ stack = <<>>
    /\ status = "idle"
    /\ files = Unset
    /\ calls = 0
    /\ sleeps = 0
    /\ StoreInit
    /\ attached = FALSE

\* ------------------------------------------------------------ exec pipeline
\* an exec that evaluates the loop predicates before the error predicates
StepAfter_loops_first(pc) ==
    CASE pc = "exec_cmd" -> "exit_on_error"
      [] pc = "exit_on_error" -> "publish"
      [] pc = "publish" -> "loop_if"
      [] pc = "loop_if" -> "loop_if_not"
      [] pc = "loop_if_not" -> "error_if"
      [] pc = "error_if" -> "error_if_not"
      [] pc = "error_if_not" -> "return"

\* the fixed order of the statements of exec()
StepAfter(pc) ==
    CASE pc = "exec_cmd" -> "exit_on_error"
      [] pc = "exit_on_error" -> "publish"
      [] pc = "publish" -> "error_if"
      [] pc = "error_if" -> "error_if_not"
      [] pc = "error_if_not" -> "loop_if"
      [] pc = "loop_if" -> "loop_if_not"
      [] pc = "loop_if_not" -> "return"

\* the top activation moves on to its next statement
Advance == stack' = SetTop([Top EXCEPT !.pc = StepAfter(Top.pc)])

\* exit(1): the process ends where it stands
Exit1 == status' = "exit1" /\ UNCHANGED stack

\* an exception other than SystemExit leaves every activation of exec() and
\* reaches the caller of run()
Raise(kind) == status' = kind /\ stack' = <<>>

\* an exit_on_error test that never fires
MustExit_never(cmd, result) == FALSE

\* the test of exec() that ends the process on a failing result
MustExit(cmd, result) == result.returncode # 0 /\ cmd.exit_on_error

\* an error_if that fires when the pattern is absent
ErrorIfMatches_inverted(cmd, result) == ~Search(cmd.error_if, result.stdout.text)

\* error_if: m is not None
ErrorIfMatches(cmd, result) == Search(cmd.error_if, result.stdout.text)

\* error_if_not: m is None
ErrorIfNotMisses(cmd, result) == ~Search(cmd.error_if_not, result.stdout.text)

\* loop_if: m is not None
LoopIfMatches(cmd, result) == Search(cmd.loop_if, result.stdout.text)

\* loop_if_not: m is None
LoopIfNotMisses(cmd, result) == ~Search(cmd.loop_if_not, result.stdout.text)

\* a retry test that allows one attempt too many
CanRetry_off_by_one(count, value) == count <= variable_to_int(value)

\* the retry test of loop_if and loop_if_not
CanRetry(count, value) == count < variable_to_int(value)

\* save_output: the file after the call; io_ok tells whether open() worked
save_output(fs, cmd, result, io_ok) ==
    IF cmd.save = None \/ ~io_ok THEN fs
    ELSE IF result.stdout.type = "str" THEN Str(result.stdout.text)
    ELSE Str(<<>>)

\* a run() that leaves run_count as the previous run left it
RunCountStart_kept(old) == old

\* a run() that starts the counter at 0
RunCountStart_zero(old) == 0

\* the value run() gives run_count, whatever it was
RunCountStart(old) == 1

\* run(command)
Run ==
    /\ status \in {"idle", "returned", "ExecException", "TypeError"}
    /\ LET r == replace_variables(varstore, command)
       IN  /\ command' = r.command
           /\ stack' = <<Frame(r.template_cmd, "exec_cmd")>>
    /\ run_count' = RunCountStart(run_count)
    /\ status' = "running"
    /\ calls' = 0
    /\ sleeps' = 0
    /\ UNCHANGED <<varstore, files>>
    /\ UNCHANGED storeVars

\* exec: the call of _exec_cmd and the except clause around it
ExecCmd ==
    /\ Running
    /\ Top.pc = "exec_cmd"
    /\ \E o \in Outcomes :
        LET result == IF o.raised THEN Result(Exc(o.stdout), 1)
                      ELSE IF o.stdout = None THEN NoResult
                      ELSE Result(Str(o.stdout), o.returncode)
        IN  stack' = SetTop([Top EXCEPT !.result = result,
                                        !.attempt = calls + 1,
                                        !.before = [varstore |-> varstore,
                                                    files |-> files],
                                        !.pc = StepAfter(Top.pc)])
    /\ calls' = calls + 1
    /\ UNCHANGED <<command, varstore, run_count, status, files, sleeps>>
    /\ UNCHANGED storeVars

\* exec: the exit_on_error test
ExitOnError ==
    /\ Running
    /\ Top.pc = "exit_on_error"
    /\ IF MustExit(Top.command, Top.result) THEN Exit1
       ELSE Advance /\ UNCHANGED status
    /\ UNCHANGED <<command, varstore, run_count, files, calls, sleeps>>
    /\ UNCHANGED storeVars

\* exec: the two set_variable calls, the output log and save_output
PublishResult ==
    /\ Running
    /\ Top.pc = "publish"
    /\ varstore' = set_variable(
                       set_variable(varstore, "RESULT_STDOUT", Top.result.stdout),
                       "RESULT_RETURNCODE", Str(ReturncodeText(Top.result.returncode)))
    /\ \E io_ok \in BOOLEAN :
           files' = save_output(files, Top.command, Top.result, io_ok)
    /\ Advance
    /\ UNCHANGED <<command, run_count, status, calls, sleeps>>
    /\ UNCHANGED storeVars

\* error_if(command, result)
ErrorIf ==
    /\ Running
    /\ Top.pc = "error_if"
    /\ IF Top.command.error_if = None THEN Advance /\ UNCHANGED status
       ELSE IF Top.result.stdout.type # "str" THEN Raise("TypeError")
       ELSE IF ErrorIfMatches(Top.command, Top.result) THEN Exit1
       ELSE Advance /\ UNCHANGED status
    /\ UNCHANGED <<command, varstore, run_count, files, calls, sleeps>>
    /\ UNCHANGED storeVars

\* error_if_not(command, result)
ErrorIfNot ==
    /\ Running
    /\ Top.pc = "error_if_not"
    /\ IF Top.command.error_if_not = None THEN Advance /\ UNCHANGED status
       ELSE IF Top.result.stdout.type # "str" THEN Raise("TypeError")
       ELSE IF ErrorIfNotMisses(Top.command, Top.result) THEN Exit1
       ELSE Advance /\ UNCHANGED status
    /\ UNCHANGED <<command, varstore, run_count, files, calls, sleeps>>
    /\ UNCHANGED storeVars

\* the branch loop_if and loop_if_not share once their predicate fired:
\* retry by a nested exec(command), or end the process
RetryOrExit ==
    IF variable_to_int(Top.command.loop_count) = NotNumeric
    THEN Raise("ExecException") /\ UNCHANGED <<run_count, sleeps>>
    ELSE IF CanRetry(run_count, Top.command.loop_count)
    THEN /\ run_count' = run_count + 1
         /\ sleeps' = sleeps + 1
         /\ stack' = Append(SetTop([Top EXCEPT !.pc = StepAfter(Top.pc)]),
                            Frame(Top.command, "exec_cmd"))
         /\ UNCHANGED status
    ELSE Exit1 /\ UNCHANGED <<run_count, sleeps>>

\* loop_if(command, result)
LoopIf ==
    /\ Running
    /\ Top.pc = "loop_if"
    /\ IF Top.command.loop_if = None
       THEN Advance /\ UNCHANGED <<status, run_count, sleeps>>
       ELSE IF Top.result.stdout.type # "str"
       THEN Raise("TypeError") /\ UNCHANGED <<run_count, sleeps>>
       ELSE IF LoopIfMatches(Top.command, Top.result) THEN RetryOrExit
       ELSE Advance /\ UNCHANGED <<status, run_count, sleeps>>
    /\ UNCHANGED <<command, varstore, files, calls>>
    /\ UNCHANGED storeVars

\* loop_if_not(command, result)
LoopIfNot ==
    /\ Running
    /\ Top.pc = "loop_if_not"
    /\ IF Top.command.loop_if_not = None
       THEN Advance /\ UNCHANGED <<status, run_count, sleeps>>
       ELSE IF Top.result.stdout.type # "str"
       THEN Raise("TypeError") /\ UNCHANGED <<run_count, sleeps>>
       ELSE IF LoopIfNotMisses(Top.command, Top.result) THEN RetryOrExit
       ELSE Advance /\ UNCHANGED <<status, run_count, sleeps>>
    /\ UNCHANGED <<command, varstore, files, calls>>
    /\ UNCHANGED storeVars

\* exec returns: to the loop_if or loop_if_not that called it, or to run()
Return ==
    /\ Running
    /\ Top.pc = "return"
    /\ stack' = SubSeq(stack, 1, Len(stack) - 1)
    /\ status' = IF Len(stack) = 1 THEN "returned" ELSE status
    /\ UNCHANGED <<command, varstore, run_count, files, calls, sleeps>>
    /\ UNCHANGED storeVars

\* --------------------------------------------------- session store: actions
\* MsfSessionStore.add_session
add_session(dir, name, uuid) == [dir EXCEPT ![name] = uuid]

\* a scan that takes the first live session whatever its exploit_uuid
FirstMatch_any(reg, dir, name) ==
    IF Len(reg) > 0 THEN reg[1].id ELSE NoHandle

\* a scan that returns the position of the matching entry, not its key
FirstMatch_index(reg, dir, name) ==
    LET hits == {i \in 1..Len(reg) :
                     dir[name] # NoUuid /\ reg[i].uuid = dir[name]}
    IN  IF hits = {} THEN NoHandle
        ELSE CHOOSE i \in hits : \A j \in hits : i <= j

\* the for loop of get_session_by_name: the key of the first entry of the
\* registry whose exploit_uuid is the one recorded for name, or NoHandle
FirstMatch(reg, dir, name) ==
    LET hits == {i \in 1..Len(reg) :
                     dir[name] # NoUuid /\ reg[i].uuid = dir[name]}
    IN  IF hits = {} THEN NoHandle
        ELSE reg[CHOOSE i \in hits : \A j \in hits : i <= j].id

\* the framework opens a session for the exploit with correlation id u
OpenSession(u) ==
    /\ next_handle <= MaxHandles
    /\ registry' = Append(registry, [id |-> next_handle, uuid |-> u])
    /\ next_handle' = next_handle + 1
    /\ UNCHANGED <<sessions, attached, queue, feeder, proc, pushed, merged>>

\* the session at position i of the registry dies
CloseSession(i) ==
    /\ i \in 1..Len(registry)
    /\ registry' = SubSeq(registry, 1, i - 1) \o SubSeq(registry, i + 1, Len(registry))
    /\ UNCHANGED <<sessions, attached, queue, feeder, next_handle, proc, pushed, merged>>

\* the owner calls get_session_by_name(name, msfsessions, block)
GetCall(name, block) ==
    /\ proc[Owner].pc \in {"idle", "returned", "raised"}
    /\ proc' = [proc EXCEPT ![Owner] =
                   [IdleProc EXCEPT !.pc = "get_drain", !.name = name,
                                    !.block = block]]
    /\ UNCHANGED <<sessions, attached, queue, feeder, registry, next_handle, pushed, merged>>

\* a get that takes the entry behind the head off the queue as well
Dequeue_two(q) == IF Len(q) > 1 THEN Tail(Tail(q)) ELSE Tail(q)

\* the queue after self.queue.get() and task_done()
Dequeue(q) == Tail(q)

\* get_session_by_name: self.queue is set and not self.queue.empty();
\* empty() looks at the pipe, a pair still in a put buffer does not count
QueuePending == attached /\ Len(queue) > 0

\* get_session_by_name: one round of the loop that empties the queue
\* (get, add_session, task_done, sleep), or the step past that loop
GetDrain ==
    /\ proc[Owner].pc = "get_drain"
    /\ IF QueuePending
       THEN /\ sessions' = add_session(sessions, Head(queue)[1], Head(queue)[2])
            /\ queue' = Dequeue(queue)
            /\ merged' = [merged EXCEPT ![Head(queue)] = @ + 1]
            /\ proc' = [proc EXCEPT ![Owner].slept = TRUE]
       ELSE /\ proc' = [proc EXCEPT ![Owner].pc = "get_scan"]
            /\ UNCHANGED <<sessions, queue, merged>>
    /\ UNCHANGED <<attached, feeder, registry, next_handle, pushed>>

\* a polling loop that scans the registry again without emptying the queue
AfterMiss_scan_only(block) == IF ~block THEN "raised" ELSE "get_scan"

\* get_session_by_name, no entry matched: raise, or go round the while loop
AfterMiss(block) == IF ~block THEN "raised" ELSE "get_drain"

\* get_session_by_name: the scan of msfsessions.list and what follows it:
\* return the key, raise ExecException, or sleep and start over
GetScan ==
    /\ proc[Owner].pc = "get_scan"
    /\ LET k == FirstMatch(registry, sessions, proc[Owner].name)
       IN  proc' = [proc EXCEPT ![Owner] =
               IF k # NoHandle THEN [@ EXCEPT !.pc = "returned", !.result = k]
               ELSE [@ EXCEPT !.pc = AfterMiss(proc[Owner].block),
                              !.slept = @ \/ proc[Owner].block]]
    /\ UNCHANGED <<sessions, attached, queue, feeder, registry, next_handle, pushed, merged>>

\* process p calls wait_for_session(name, uuid, msfsessions, queue); a worker
\* passes the shared queue, the owner passes none
WaitCall(p, name, uuid) ==
    /\ IF p = Owner THEN proc[p].pc \in {"idle", "returned", "raised"}
       ELSE proc[p].pc = "idle" /\ name = WorkerName(p) /\ uuid = WorkerUuid(p)
    /\ proc' = [proc EXCEPT ![p] =
                   [IdleProc EXCEPT !.pc = "wait_len", !.name = name,
                                    !.uuid = uuid]]
    /\ UNCHANGED <<sessions, attached, queue, feeder, registry, next_handle, pushed, merged>>

\* wait_for_session: the test that the registry holds any session
WaitLen(p) ==
    /\ proc[p].pc = "wait_len"
    /\ Len(registry) > 0
    /\ proc' = [proc EXCEPT ![p].pc = "wait_scan"]
    /\ UNCHANGED <<sessions, attached, queue, feeder, registry, next_handle, pushed, merged>>

\* The queue is a joinable queue of multiprocessing (the import of line 4,
\* task_done at line 28): put() returns with the pair in the buffer of the
\* feeder thread of the calling process, and that thread writes it to the
\* pipe later. Each worker puts once, so the buffers are held as one bag.
\* queue.put(pair):
Put(buf, pair) == [buf EXCEPT ![pair] = @ + 1]

\* the feeder thread of a worker writes a pair of its buffer to the pipe of
\* the queue, where empty() and get() of the owner see it
Feed(pair) ==
    /\ feeder[pair] > 0
    /\ feeder' = [feeder EXCEPT ![pair] = @ - 1]
    /\ queue' = Append(queue, pair)
    /\ UNCHANGED <<sessions, attached, registry, next_handle, proc, pushed, merged>>

\* an add_or_queue_session that registers locally although it was given a
\* queue
add_or_queue_session_both(p, name, uuid, session_id) ==
    /\ sessions' = add_session(sessions, name, uuid)
    /\ varstore' = set_variable(varstore, "LAST_MSF_SESSION",
                                Str(IntToText(session_id)))
    /\ proc' = [proc EXCEPT ![p].pc = "returned", ![p].slept = TRUE]
    /\ IF p # Owner
       THEN /\ feeder' = Put(feeder, <<name, uuid>>)
            /\ pushed' = [pushed EXCEPT ![<<name, uuid>>] = @ + 1]
       ELSE UNCHANGED <<feeder, pushed>>

\* add_or_queue_session(name, uuid, queue, session_id) called by process p;
\* put() leaves the pair in the buffer of the feeder thread of p
add_or_queue_session(p, name, uuid, session_id) ==
    IF p # Owner
    THEN /\ feeder' = Put(feeder, <<name, uuid>>)
         /\ pushed' = [pushed EXCEPT ![<<name, uuid>>] = @ + 1]
         /\ proc' = [proc EXCEPT ![p].pc = "returned"]
         /\ UNCHANGED <<sessions, varstore>>
    ELSE /\ sessions' = add_session(sessions, name, uuid)
         /\ varstore' = set_variable(varstore, "LAST_MSF_SESSION",
                                     Str(IntToText(session_id)))
         /\ proc' = [proc EXCEPT ![p].pc = "returned", ![p].slept = TRUE]
         /\ UNCHANGED <<feeder, pushed>>

\* wait_for_session: the scan of msfsessions.list, and add_or_queue_session
\* on the first entry with the wanted exploit_uuid
WaitScan(p) ==
    /\ proc[p].pc = "wait_scan"
    /\ LET hits == {i \in 1..Len(registry) : registry[i].uuid = proc[p].uuid}
           first == CHOOSE i \in hits : \A j \in hits : i <= j
       IN  IF hits = {}
           THEN /\ proc' = [proc EXCEPT ![p].pc = "wait_len"]
                /\ UNCHANGED <<sessions, feeder, varstore, pushed>>
           ELSE add_or_queue_session(p, proc[p].name, proc[p].uuid,
                                     registry[first].id)
    /\ UNCHANGED <<attached, queue, registry, next_handle, merged>>

engineVars == <<command, run_count, stack, status, files, calls, sleeps>>

\* what a step of the store or of the framework leaves alone
restVars == <<engineVars, varstore, handed>>

\* the queue a worker is given is the one the store of the owner holds, so
\* workers run only beside a store whose queue is set
NextStore ==
    \/ \E u \in Uuids : OpenSession(u) /\ UNCHANGED restVars
    \/ \E i \in 1..MaxHandles : CloseSession(i) /\ UNCHANGED restVars
    \/ \E n \in Names, b \in BOOLEAN : GetCall(n, b) /\ UNCHANGED restVars
    \/ GetDrain /\ UNCHANGED restVars
    \/ GetScan /\ UNCHANGED restVars
    \/ \E p \in Procs, n \in Names, u \in Uuids :
           (p # Owner => attached) /\ WaitCall(p, n, u) /\ UNCHANGED restVars
    \/ \E p \in Procs : WaitLen(p) /\ UNCHANGED restVars
    \/ \E p \in Procs : WaitScan(p) /\ UNCHANGED <<engineVars, handed>>
    \/ \E pr \in Pairs : Feed(pr) /\ UNCHANGED restVars

\* an executor that runs nothing, beside a store whose queue may be attached
InitStore ==
    /\ command = [cmd |-> <<"c", "@", "%">>, options |-> [RHOSTS |-> <<"@">>],
                  save |-> None, exit_on_error |-> FALSE, error_if |-> None,
                  error_if_not |-> None, loop_if |-> None, loop_if_not |-> None,
                  loop_count |-> IntToText(MaxLoopCount)]
    /\ varstore = [n \in VarNames |-> IF n = "TARGET" THEN Str(<<"t">>) ELSE Unset]
    /\ run_count = 0
    /\ stack = <<>>
    /\ status = "idle"
    /\ files = Unset
    /\ calls = 0
    /\ sleeps = 0
    /\ StoreInit
    /\ attached \in BOOLEAN

SpecStore == InitStore /\ [][NextStore]_vars

\* the store of the owner holds the queue the workers were given
InitHandoff == InitStore /\ attached

\* the workers of a playbook that discovers each session name once
Discoverers ==
    {w \in Workers : \A v \in Workers : v < w => WorkerName(v) # WorkerName(w)}

\* ------------------------------------------- wait_for_increased_session
\* a scan that takes the first session of the registry, new or not
FirstNew_any(reg, known) ==
    IF Len(reg) > 0 THEN 1 ELSE 0

\* a scan that takes the session that appeared last
FirstNew_last(reg, known) ==
    LET fresh == {i \in 1..Len(reg) : reg[i].id \notin known}
    IN  IF fresh = {} THEN 0
        ELSE CHOOSE i \in fresh : \A j \in fresh : i >= j

\* the for loop of wait_for_increased_session: the position of the first
\* entry of the registry whose key is not in the list of keys taken at the
\* start, or 0
FirstNew(reg, known) ==
    LET fresh == {i \in 1..Len(reg) : reg[i].id \notin known}
    IN  IF fresh = {} THEN 0
        ELSE CHOOSE i \in fresh : \A j \in fresh : i <= j

\* process p calls wait_for_increased_session(name, uuid, msfsessions, queue)
\* and takes the length of the registry; a worker passes the shared queue
IncCall(p, name) ==
    /\ proc[p].pc = "idle"
    /\ p # Owner => name = WorkerName(p)
    /\ proc' = [proc EXCEPT ![p] =
                   [IdleProc EXCEPT !.pc = "inc_keys", !.name = name,
                                    !.stored_list_len = Len(registry),
                                    !.first_id = next_handle]]
    /\ UNCHANGED <<sessions, attached, queue, feeder, registry, next_handle, pushed, merged>>

\* wait_for_increased_session: the list of the keys of the registry
IncKeys(p) ==
    /\ proc[p].pc = "inc_keys"
    /\ proc' = [proc EXCEPT ![p].pc = "inc_len",
                            ![p].snapshot = {registry[i].id : i \in 1..Len(registry)}]
    /\ UNCHANGED <<sessions, attached, queue, feeder, registry, next_handle, pushed, merged>>

\* wait_for_increased_session: the test that the registry has grown
IncLen(p) ==
    /\ proc[p].pc = "inc_len"
    /\ Len(registry) > proc[p].stored_list_len
    /\ proc' = [proc EXCEPT ![p].pc = "inc_scan"]
    /\ UNCHANGED <<sessions, attached, queue, feeder, registry, next_handle, pushed, merged>>

\* wait_for_increased_session: the scan of msfsessions.list, and
\* add_or_queue_session with the exploit_uuid of the first new session
IncScan(p) ==
    /\ proc[p].pc = "inc_scan"
    /\ LET i == FirstNew(registry, proc[p].snapshot)
       IN  IF i = 0
           THEN /\ proc' = [proc EXCEPT ![p].pc = "inc_len"]
                /\ UNCHANGED <<sessions, feeder, varstore, pushed>>
           ELSE add_or_queue_session(p, proc[p].name, registry[i].uuid,
                                     registry[i].id)
    /\ UNCHANGED <<attached, queue, registry, next_handle, merged>>

\* the processes that wait for a new session: the owner and one worker
Waiters == {Owner} \cup {w \in Workers : \A v \in Workers : w <= v}

\* one discovery by wait_for_increased_session in the owner and one in a
\* worker, while sessions come and go
NextIncreased ==
    \/ \E u \in Uuids : OpenSession(u) /\ UNCHANGED restVars
    \/ \E i \in 1..MaxHandles : CloseSession(i) /\ UNCHANGED restVars
    \/ \E p \in Waiters, n \in Names :
           IncCall(p, n) /\ UNCHANGED restVars
    \/ \E p \in Waiters : IncKeys(p) /\ UNCHANGED restVars
    \/ \E p \in Waiters : IncLen(p) /\ UNCHANGED restVars
    \/ \E p \in Waiters : IncScan(p) /\ UNCHANGED <<engineVars, handed>>
    \/ \E pr \in Pairs : Feed(pr) /\ UNCHANGED restVars

SpecIncreased == InitHandoff /\ [][NextIncreased]_vars

\* ------------------------------------------------- cross-process handoff
\* the owner begins a lookup; handed keeps the puts that returned before
OwnerCall(name, block) ==
    GetCall(name, block) /\ handed' = pushed /\ UNCHANGED <<engineVars, varstore>>

\* the steps of the owner inside get_session_by_name
OwnerDrain == GetDrain /\ UNCHANGED restVars

OwnerScan == GetScan /\ UNCHANGED restVars

\* the feeder thread of a worker that has put a pair
WorkerFeed == \E pr \in Pairs : Feed(pr) /\ UNCHANGED restVars

\* background workers discover sessions and hand them over through the
\* queue, the owner only looks sessions up
NextHandoff ==
    \/ \E u \in Uuids : OpenSession(u) /\ UNCHANGED restVars
    \/ \E i \in 1..MaxHandles : CloseSession(i) /\ UNCHANGED restVars
    \/ \E n \in Names, b \in BOOLEAN : OwnerCall(n, b)
    \/ OwnerDrain
    \/ OwnerScan
    \/ \E w \in Discoverers :
           WaitCall(w, WorkerName(w), WorkerUuid(w)) /\ UNCHANGED restVars
    \/ \E w \in Discoverers : WaitLen(w) /\ UNCHANGED restVars
    \/ \E w \in Discoverers : WaitScan(w) /\ UNCHANGED <<engineVars, handed>>
    \/ WorkerFeed

\* the owner process is scheduled again and again (time.sleep returns), so
\* a get_session_by_name that can take a step takes it; the feeder thread
\* of a worker runs until its buffer is written
SpecHandoff ==
    /\ InitHandoff
    /\ [][NextHandoff]_vars
    /\ WF_vars(OwnerDrain) /\ WF_vars(OwnerScan) /\ WF_vars(WorkerFeed)

Next ==
    \/ Run
    \/ ExecCmd
    \/ ExitOnError
    \/ PublishResult
    \/ ErrorIf
    \/ ErrorIfNot
    \/ LoopIf
    \/ LoopIfNot
    \/ Return

Spec == Init /\ [][Next]_vars

\* ======================================================= properties: engine
Max(a, b) == IF a >= b THEN a ELSE b

\* the activations that hold the result of an attempt
Attempts == {i \in 1..Len(stack) : stack[i].attempt > 0}

\* an error predicate of the command fires on the text the attempt produced
ErrorFires(f) ==
    /\ f.result.stdout.type = "str"
    /\ \/ f.command.error_if # None
          /\ Search(f.command.error_if, f.result.stdout.text)
       \/ f.command.error_if_not # None
          /\ ~Search(f.command.error_if_not, f.result.stdout.text)

\* a loop predicate of the command fires on the text the attempt produced
LoopFires(f) ==
    /\ f.result.stdout.type = "str"
    /\ \/ f.command.loop_if # None
          /\ Search(f.command.loop_if, f.result.stdout.text)
       \/ f.command.loop_if_not # None
          /\ ~Search(f.command.loop_if_not, f.result.stdout.text)

\* the run has made an attempt, and every attempt it made is still active
\* and produced a text on which a loop predicate and no error predicate fires
EveryAttemptLoops ==
    /\ calls >= 1
    /\ Len(stack) = calls
    /\ \A i \in 1..Len(stack) :
           /\ stack[i].attempt = i
           /\ LoopFires(stack[i])
           /\ ~ErrorFires(stack[i])

\* the run ended
Ended == status \in {"returned", "exit1", "ExecException", "TypeError"}

\* C1 (as amended): in a run with numeric loop_count N and exit_on_error
\* unset in which a loop predicate and no error predicate fires on every
\* attempt, _exec_cmd is never invoked more than max(1, N) times, the run
\* can end only by exit(1), and it does so after exactly max(1, N)
\* invocations; and no run returns normally while a loop predicate fires on
\* the output it published last.
C1_RetryBound ==
    /\ (IsNumeric(command.loop_count) /\ ~command.exit_on_error /\ EveryAttemptLoops)
       => /\ calls <= Max(1, ParseInt(command.loop_count))
          /\ status \in {"running", "exit1"}
          /\ status = "exit1" => calls = Max(1, ParseInt(command.loop_count))
    /\ (status = "returned" /\ (command.loop_if # None \/ command.loop_if_not # None))
       => /\ varstore["RESULT_STDOUT"].type = "str"
          /\ command.loop_if # None
             => ~Search(command.loop_if, varstore["RESULT_STDOUT"].text)
          /\ command.loop_if_not # None
             => Search(command.loop_if_not, varstore["RESULT_STDOUT"].text)

\* C1 as stated: such a run ends after exactly N invocations of _exec_cmd
C1_Original ==
    (IsNumeric(command.loop_count) /\ ~command.exit_on_error /\ EveryAttemptLoops
     /\ Ended)
    => status = "exit1" /\ calls = ParseInt(command.loop_count)

\* a run with loop_count = MaxLoopCount ended by loop exhaustion after a
\* loop predicate fired on each of its MaxLoopCount attempts
C1_Witness ==
    /\ status = "exit1"
    /\ EveryAttemptLoops
    /\ ~command.exit_on_error
    /\ command.loop_count = IntToText(MaxLoopCount)
    /\ calls = MaxLoopCount
    /\ Top.pc = "loop_if_not"

\* the counter stays within 1..max(1, loop_count) once run() was called
C2_Range ==
    (status # "idle" /\ IsNumeric(command.loop_count))
    => /\ 1 <= run_count
       /\ run_count <= Max(1, ParseInt(command.loop_count))

\* a step that starts a run sets the counter to 1; any other step leaves it
\* alone or is a retry of loop_if / loop_if_not, which adds 1 and enters a
\* nested exec
C2_Step ==
    /\ (status # "running" /\ status' = "running") => run_count' = 1
    /\ (status = "running" /\ run_count' # run_count)
       => /\ run_count' = run_count + 1
          /\ Top.pc \in {"loop_if", "loop_if_not"}
          /\ LoopFires(Top)
          /\ Len(stack') = Len(stack) + 1

\* C2 (as amended): run(command) sets the run counter to 1 whatever a
\* previous run left, the counter changes only by +1 on the retry path of
\* loop_if / loop_if_not, and in a run with numeric loop_count it satisfies
\* 1 <= run_count <= max(1, loop_count).
C2_RunCounter == []C2_Range /\ [][C2_Step]_vars

\* C2 as stated: 1 <= run_count <= loop_count in every state of a run with
\* numeric loop_count
C2_Original ==
    (status # "idle" /\ IsNumeric(command.loop_count))
    => /\ 1 <= run_count
       /\ run_count <= ParseInt(command.loop_count)

\* a later run() on an executor that ran before has reset the counter, and
\* its retries have brought it up to loop_count again
C2_Witness ==
    /\ status = "running"
    /\ Top.before.varstore["RESULT_STDOUT"].type # "unset"
    /\ Len(stack) = 1
    /\ calls = MaxLoopCount
    /\ run_count = MaxLoopCount
    /\ command.loop_count = IntToText(MaxLoopCount)

\* an attempt on whose text an error predicate fires and a loop predicate
\* would fire is the last attempt of the run and never reaches the loop
\* predicates: the counter, the sleeps and the invocations stand where that
\* attempt left them
C3_NotLooped ==
    \A i \in Attempts :
        (ErrorFires(stack[i]) /\ LoopFires(stack[i]))
        => /\ i = Len(stack)
           /\ stack[i].pc \in {"exit_on_error", "publish", "error_if", "error_if_not"}
           /\ stack[i].pc = "error_if_not"
              => (stack[i].command.error_if = None
                  \/ ~Search(stack[i].command.error_if, stack[i].result.stdout.text))
           /\ calls = stack[i].attempt
           /\ run_count = stack[i].attempt
           /\ sleeps = stack[i].attempt - 1

\* the error predicate that fires on such an attempt ends the process
C3_ExitStep ==
    (Running /\ ErrorFires(Top) /\ LoopFires(Top)
     /\ Top.pc \in {"error_if", "error_if_not"})
    => \/ status' = "exit1" /\ UNCHANGED <<run_count, calls, sleeps, stack>>
       \/ /\ Top.pc = "error_if"
          /\ status' = "running"
          /\ Len(stack') = Len(stack)
          /\ stack'[Len(stack)].pc = "error_if_not"
          /\ UNCHANGED <<run_count, calls, sleeps>>

\* C3: when an attempt's result triggers an error predicate and would also
\* trigger a loop predicate, the process ends by exit(1) on that result: no
\* loop predicate is evaluated on it, the run counter is not incremented, no
\* retry sleep happens and _exec_cmd is not invoked again.
C3_ErrorBeforeLoop == []C3_NotLooped /\ [][C3_ExitStep]_vars

\* the process ended in error_if_not on a text on which loop_if would have
\* fired, after an earlier retry
C3_Witness ==
    /\ status = "exit1"
    /\ Top.pc = "error_if_not"
    /\ ErrorFires(Top)
    /\ LoopFires(Top)
    /\ Top.command.loop_if # None
    /\ Search(Top.command.loop_if, Top.result.stdout.text)
    /\ Top.attempt = 2
    /\ run_count < ParseInt(Top.command.loop_count)

\* an attempt with a failing result under exit_on_error stays at the
\* exit_on_error test, with the store and the file as it found them
C4_Frame ==
    \A i \in Attempts :
        (stack[i].result.returncode # 0 /\ stack[i].command.exit_on_error)
        => /\ i = Len(stack)
           /\ stack[i].pc = "exit_on_error"
           /\ varstore = stack[i].before.varstore
           /\ files = stack[i].before.files
           /\ calls = stack[i].attempt
           /\ run_count = stack[i].attempt
           /\ sleeps = stack[i].attempt - 1

\* the exit_on_error test on such a result ends the process
C4_ExitStep ==
    (Running /\ Top.pc = "exit_on_error"
     /\ Top.result.returncode # 0 /\ Top.command.exit_on_error)
    => status' = "exit1"
       /\ UNCHANGED <<varstore, files, run_count, calls, sleeps, stack>>

\* C4: when an attempt's result has status # 0 and exit_on_error is set,
\* exec ends the process with exit status 1 before any later step: the
\* result variables of the store keep their values, nothing is written to
\* command.save, no error or loop predicate is evaluated, no retry occurs.
C4_ExitOnErrorFirst == []C4_Frame /\ [][C4_ExitStep]_vars

\* the process ended at the exit_on_error test of a retry, on a result that
\* every predicate would have fired on, with the store holding the previous
\* attempt's output and the file already written
C4_Witness ==
    /\ status = "exit1"
    /\ Top.pc = "exit_on_error"
    /\ Top.attempt = 2
    /\ Top.result.stdout = Str(<<"E", "R", "L">>)
    /\ Top.command.error_if # None
    /\ Top.command.loop_if # None
    /\ varstore["RESULT_STDOUT"] = Str(<<"L", "O", "K">>)
    /\ files = Str(<<"L", "O", "K">>)

\* an attempt that passed the exit_on_error test with a text on which an
\* error predicate fires never gets past that predicate
C5_Held ==
    \A i \in Attempts :
        (stack[i].pc # "exit_on_error" /\ ErrorFires(stack[i]))
        => /\ stack[i].pc \in {"publish", "error_if", "error_if_not"}
           /\ (stack[i].pc = "error_if_not" /\ stack[i].command.error_if # None)
              => ~Search(stack[i].command.error_if, stack[i].result.stdout.text)

\* the predicate that fires ends the process with exit status 1
C5_ExitStep ==
    /\ (Running /\ Top.pc = "error_if" /\ Top.result.stdout.type = "str"
        /\ Top.command.error_if # None
        /\ Search(Top.command.error_if, Top.result.stdout.text))
       => status' = "exit1"
    /\ (Running /\ Top.pc = "error_if_not" /\ Top.result.stdout.type = "str"
        /\ Top.command.error_if_not # None
        /\ ~Search(Top.command.error_if_not, Top.result.stdout.text))
       => status' = "exit1"

\* a run that returned normally published last a text on which no error
\* predicate fires
C5_NoNormalReturn ==
    (status = "returned" /\ varstore["RESULT_STDOUT"].type = "str")
    => /\ command.error_if # None
          => ~Search(command.error_if, varstore["RESULT_STDOUT"].text)
       /\ command.error_if_not # None
          => Search(command.error_if_not, varstore["RESULT_STDOUT"].text)

\* C5: for every attempt not ended by the exit_on_error step, if error_if is
\* set and matches the output, or error_if_not is set and does not match it,
\* the process ends with exit status 1 whatever exit_on_error and the
\* result's status are; the run never completes normally on such a result.
C5_ErrorPredicatesFatal ==
    [](C5_Held /\ C5_NoNormalReturn) /\ [][C5_ExitStep]_vars

\* error_if ended the process on a result with status 0 while exit_on_error
\* was unset
C5_Witness ==
    /\ status = "exit1"
    /\ Top.pc = "error_if"
    /\ ~Top.command.exit_on_error
    /\ Top.result.returncode = 0
    /\ Search(Top.command.error_if, Top.result.stdout.text)

\* the loop predicate the top activation is about to evaluate fires
LoopFiresAtTop ==
    /\ Running
    /\ Top.result.stdout.type = "str"
    /\ \/ /\ Top.pc = "loop_if"
          /\ Top.command.loop_if # None
          /\ Search(Top.command.loop_if, Top.result.stdout.text)
       \/ /\ Top.pc = "loop_if_not"
          /\ Top.command.loop_if_not # None
          /\ ~Search(Top.command.loop_if_not, Top.result.stdout.text)

\* the loop predicate that fires under a non-numeric loop_count raises
\* ExecException out of run(), with no retry
C6_RaiseStep ==
    (LoopFiresAtTop /\ ~IsNumeric(Top.command.loop_count))
    => /\ status' = "ExecException"
       /\ UNCHANGED <<run_count, sleeps, calls>>

\* a run under a non-numeric loop_count makes one attempt at most and never
\* sleeps; the ExecException ends it after that one attempt
C6_OneAttempt ==
    /\ (status # "idle" /\ ~IsNumeric(command.loop_count))
       => calls <= 1 /\ sleeps = 0 /\ run_count = 1
    /\ status = "ExecException"
       => ~IsNumeric(command.loop_count) /\ calls = 1 /\ LoopFires(
              [command |-> command,
               result |-> Result(varstore["RESULT_STDOUT"], 0)])

\* C6: when a loop predicate triggers on an attempt and loop_count is
\* non-numeric, the run fails with the ExecException of variable_to_int
\* before any retry sleep, without incrementing the run counter and without
\* invoking _exec_cmd a second time.
C6_NonNumericLoopCount == []C6_OneAttempt /\ [][C6_RaiseStep]_vars

\* loop_if_not fired under loop_count "abc" and the run ended by the
\* ExecException after its first attempt
C6_Witness ==
    /\ status = "ExecException"
    /\ command.loop_count = <<"a", "b", "c">>
    /\ command.loop_if = None
    /\ command.loop_if_not # None
    /\ calls = 1
    /\ sleeps = 0
    /\ run_count = 1

\* C7 as stated: every fatal condition of the engine, a non-numeric
\* loop_count included, ends the run by exit(1) and not by an error
\* delivered to the caller of run().
C7_FatalIsExit ==
    status \in {"exit1", "ExecException"} => status = "exit1"

\* C8: substitution never mutates the caller's command: whatever run() and
\* replace_variables do, with any number of retries and any outcome, every
\* field of the command the caller passed keeps its value.
C8_CommandUntouched == [][command' = command]_vars

\* a retry runs on a copy whose cmd and options carry substituted values,
\* while the caller's command still carries the template
C8_Witness ==
    /\ status = "running"
    /\ calls >= 2
    /\ Top.command.cmd # command.cmd
    /\ Top.command.options # command.options
    /\ command.cmd = <<"c", "@", "%">>
    /\ command.options = [RHOSTS |-> <<"@">>]

\* C9 as stated: an attempt in which _exec_cmd raised ExecException is a
\* Result with status 1 whose output is the failure message, a text the
\* error and loop predicates are evaluated on like on any other output; no
\* error leaves exec because of it.
C9_FailureIsClassified ==
    ~(status = "TypeError" /\ varstore["RESULT_STDOUT"].type = "ExecException")

\* the result the store holds is that of the latest attempt of the run
PublishedIsLatest ==
    /\ calls >= 1
    /\ \A i \in 1..Len(stack) : stack[i].pc \notin {"exit_on_error", "publish"}

\* the published output as an attempt of the caller's command
Published == [command |-> command, result |-> Result(varstore["RESULT_STDOUT"], 0)]

\* C14 as stated: loop_count is validated on every run, so a run whose
\* loop_count is non-numeric never completes normally, whether or not a loop
\* predicate is set or triggers on the result.
C14_AlwaysValidated ==
    (status # "idle" /\ ~IsNumeric(command.loop_count)) => status # "returned"

\* C19 as stated: once the latest attempt of a run has produced a text on
\* which no error predicate and no loop predicate triggers, _exec_cmd is not
\* invoked again, no retry is decided (the run counter stands) and the run
\* goes on to return normally, with both loop_if and loop_if_not set too.
C19_CleanResultEndsRun ==
    [][(status = "running" /\ PublishedIsLatest
        /\ varstore["RESULT_STDOUT"].type = "str"
        /\ ~ErrorFires(Published) /\ ~LoopFires(Published))
       => (calls' = calls /\ run_count' = run_count
           /\ status' \in {"running", "returned"})]_vars

\* the statements an activation of exec() at pc still has to execute
Rank(pc) ==
    CASE pc = "exec_cmd" -> 8
      [] pc = "exit_on_error" -> 7
      [] pc = "publish" -> 6
      [] pc = "error_if" -> 5
      [] pc = "error_if_not" -> 4
      [] pc = "loop_if" -> 3
      [] pc = "loop_if_not" -> 2
      [] pc = "return" -> 1

RECURSIVE SumRank(_)
SumRank(s) == IF s = <<>> THEN 0 ELSE Rank(Head(s).pc) + SumRank(Tail(s))

\* what a run with numeric loop_count has left to do: the retries the
\* counter still allows, each worth more than one activation, and the
\* statements of the activations that are open
Remaining ==
    (Max(1, ParseInt(command.loop_count)) - run_count) * (Rank("exec_cmd") + 1)
    + SumRank(stack)

\* a run with numeric loop_count has invoked _exec_cmd at most max(1,
\* loop_count) times, never more often than the counter tells, and can
\* always take a step while it has not ended
C20_Bound ==
    (status # "idle" /\ IsNumeric(command.loop_count))
    => /\ calls <= Max(1, ParseInt(command.loop_count))
       /\ calls <= run_count
       /\ Remaining >= 0
       /\ status = "running" => ENABLED Next

\* every step of such a run ends it or leaves strictly less to do
C20_Step ==
    (status = "running" /\ IsNumeric(command.loop_count))
    => \/ status' \in {"returned", "exit1", "TypeError"}
       \/ status' = "running" /\ Remaining' < Remaining

\* C20: provided every attempt of _exec_cmd returns or raises, every run with
\* numeric loop_count ends (normal return or fatal end) after at most max(1,
\* loop_count) invocations of _exec_cmd in total, for every combination of
\* loop_if and loop_if_not and every sequence of outputs.
C20_BoundedRun == []C20_Bound /\ [][C20_Step]_vars

\* a run with loop_if and loop_if_not both set returned normally after
\* MaxLoopCount invocations, the last retry decided by loop_if_not after the
\* retry of loop_if had returned
C20_Witness ==
    /\ status = "returned"
    /\ command.loop_if # None
    /\ command.loop_if_not # None
    /\ command.loop_count = IntToText(MaxLoopCount)
    /\ calls = MaxLoopCount
    /\ run_count = MaxLoopCount

\* ======================================================== properties: store
\* no entry of the registry carries the id the directory records for name
NoLiveMatch(name) ==
    \/ sessions[name] = NoUuid
    \/ \A i \in 1..Len(registry) : registry[i].uuid # sessions[name]

\* the owner is inside get_session_by_name
InGet == proc[Owner].pc \in {"get_drain", "get_scan"}

\* the scan of a non-blocking call that drained nothing and finds no match
\* raises ExecException at once
C10_RaiseStep ==
    (proc[Owner].pc = "get_scan" /\ proc'[Owner] # proc[Owner]
     /\ ~proc[Owner].block /\ ~proc[Owner].slept
     /\ NoLiveMatch(proc[Owner].name))
    => /\ proc'[Owner].pc = "raised"
       /\ ~proc'[Owner].slept
       /\ sessions' = sessions

\* get_session_by_name changes the directory only in a round that drains the
\* queue, and that round sleeps
C10_DirectoryStep ==
    (InGet /\ sessions' # sessions)
    => /\ attached
       /\ queue # <<>>
       /\ queue' = Tail(queue)
       /\ proc'[Owner].slept

\* C10 (as amended): get_session_by_name(name, registry, block=false) that
\* finds its queue unset or empty, and no handle of the live registry with
\* the correlation id recorded for name (or no id recorded at all), raises
\* the ExecException "not found" without any sleep and leaves the directory
\* unchanged.
C10_NotFoundAtOnce == [][C10_RaiseStep /\ C10_DirectoryStep]_vars

\* C10 as stated: whenever the non-blocking call finds no handle with the id
\* recorded for name, it raises without having slept
C10_Original ==
    [][(proc[Owner].pc = "get_scan" /\ proc'[Owner] # proc[Owner]
        /\ ~proc[Owner].block /\ NoLiveMatch(proc[Owner].name))
       => (proc'[Owner].pc = "raised" /\ ~proc'[Owner].slept)]_vars

\* a non-blocking call raised without a sleep, its queue attached and empty,
\* while the directory records an id for the name and the registry holds a
\* session with another id
C10_Witness ==
    /\ proc[Owner].pc = "raised"
    /\ ~proc[Owner].slept
    /\ attached
    /\ queue = <<>>
    /\ sessions[proc[Owner].name] # NoUuid
    /\ registry # <<>>

\* how often pair pr stands in the queue q
RECURSIVE Count(_, _)
Count(q, pr) ==
    IF q = <<>> THEN 0
    ELSE (IF Head(q) = pr THEN 1 ELSE 0) + Count(Tail(q), pr)

\* the pair worker w hands over
PairOf(w) == <<WorkerName(w), WorkerUuid(w)>>

\* the session ids of the registry that carry exploit_uuid u
Handles(u) == {registry[i].id : i \in {j \in 1..Len(registry) : registry[j].uuid = u}}

\* a step of the owner
OwnerStep == proc'[Owner] # proc[Owner]

\* C11 as stated: after a worker's wait_for_session(name, id, registry,
\* queue) has matched and returned, the next get_session_by_name of the
\* owner merges the pair in its first drain cycle, so that directory[name] =
\* id whenever that call scans the registry.
C11_Handoff ==
    proc[Owner].pc = "get_scan"
    => \A w \in Discoverers :
           handed[PairOf(w)] > 0 => sessions[WorkerName(w)] = WorkerUuid(w)

\* every pair put on the queue is in a put buffer or in the pipe or was
\* merged, as often as it was put
C12_Conservation ==
    \A pr \in Pairs : pushed[pr] = merged[pr] + Count(queue, pr) + feeder[pr]

\* the queue changes only by a worker that puts one pair, by a feeder thread
\* that moves one pair from its buffer to the end of the pipe, or by the
\* drain of the owner, which takes the head off and merges that pair into
\* the directory
C12_QueueStep ==
    (queue' # queue \/ feeder' # feeder)
    => \/ /\ \E pr \in Pairs :
                /\ feeder' = [feeder EXCEPT ![pr] = @ + 1]
                /\ pushed' = [pushed EXCEPT ![pr] = @ + 1]
          /\ UNCHANGED <<queue, merged, sessions>>
       \/ /\ \E pr \in Pairs :
                /\ feeder[pr] > 0
                /\ feeder' = [feeder EXCEPT ![pr] = @ - 1]
                /\ queue' = Append(queue, pr)
          /\ UNCHANGED <<pushed, merged, sessions>>
       \/ /\ proc[Owner].pc = "get_drain"
          /\ queue # <<>>
          /\ queue' = Tail(queue)
          /\ merged' = [merged EXCEPT ![Head(queue)] = @ + 1]
          /\ sessions' = [sessions EXCEPT ![Head(queue)[1]] = Head(queue)[2]]
          /\ UNCHANGED <<pushed, feeder>>

\* C12: with any number of workers pushing pairs, interleaved in any way
\* with the drains of the owner, every pushed pair is taken off the queue
\* once and merged into the directory once: none is lost, none is merged
\* twice, and a drained pair is not in the queue for a later
\* get_session_by_name.
C12_ExactlyOnce == []C12_Conservation /\ [][C12_QueueStep]_vars

\* the owner is draining: it has merged the pair of worker 1 and the pair
\* worker 2 pushed meanwhile has reached the pipe
C12_Witness ==
    /\ proc[Owner].pc = "get_drain"
    /\ attached
    /\ merged[<<"a", "u1">>] = 1
    /\ queue = << <<"b", "u2">> >>
    /\ feeder = [pr \in Pairs |-> 0]
    /\ sessions["a"] = "u1"

\* wait_for_session of process p returns from its scan only, on a session
\* of the registry with the wanted exploit_uuid; with a queue (a worker) it
\* pushes the pair and touches neither directory nor LAST_MSF_SESSION,
\* without a queue (the owner) it registers the pair, sets LAST_MSF_SESSION
\* to the session id and pushes nothing; until then it changes nothing
C13_Step ==
    \A p \in Procs :
        (proc[p].pc \in {"wait_len", "wait_scan"} /\ proc'[p] # proc[p])
        => IF proc'[p].pc = "returned"
           THEN /\ proc[p].pc = "wait_scan"
                /\ Handles(proc[p].uuid) # {}
                /\ IF p # Owner
                   THEN /\ feeder' = [feeder EXCEPT
                                           ![<<proc[p].name, proc[p].uuid>>] = @ + 1]
                        /\ pushed' = [pushed EXCEPT
                                           ![<<proc[p].name, proc[p].uuid>>] = @ + 1]
                        /\ UNCHANGED <<sessions, varstore, queue>>
                   ELSE /\ sessions' = [sessions EXCEPT ![proc[p].name] = proc[p].uuid]
                        /\ \E h \in Handles(proc[p].uuid) :
                              varstore' = [varstore EXCEPT !["LAST_MSF_SESSION"] =
                                              Str(IntToText(h))]
                        /\ UNCHANGED <<queue, feeder, pushed>>
           ELSE /\ proc'[p].pc \in {"wait_len", "wait_scan"}
                /\ UNCHANGED <<sessions, varstore, queue, feeder, pushed>>

\* C13: each discovery by wait_for_session goes WAITING -> MATCHED -> one of
\* REGISTERED or QUEUED: it returns only on a live session whose
\* exploit_uuid is the requested one; given a queue it pushes exactly one
\* (name, id) pair and leaves directory and LAST_MSF_SESSION alone; given
\* none it sets directory[name] = id and LAST_MSF_SESSION to the matched
\* session and pushes nothing.
C13_Discovery == [][C13_Step]_vars

\* the owner registered ("b", "u1") itself, session 2 being the first with
\* that id, while worker 1 has put its pair
C13_Witness ==
    /\ proc[Owner].pc = "returned"
    /\ proc[Owner].uuid = "u1"
    /\ proc[Owner].name = "b"
    /\ sessions["b"] = "u1"
    /\ varstore["LAST_MSF_SESSION"] = Str(<<"2">>)
    /\ proc[1].pc = "returned"
    /\ feeder[<<"a", "u1">>] = 1
    /\ queue = <<>>
    /\ sessions["a"] = NoUuid

\* the scan of get_session_by_name returns only the key of an entry of the
\* registry whose exploit_uuid is the one the directory holds for name
C15_ReturnStep ==
    (proc[Owner].pc = "get_scan" /\ proc'[Owner].pc = "returned")
    => /\ sessions[proc[Owner].name] # NoUuid
       /\ proc'[Owner].result # NoHandle
       /\ proc'[Owner].result \in Handles(sessions[proc[Owner].name])
       /\ sessions' = sessions

\* a lookup that returned a session has its name in the directory
C15_Named ==
    (proc[Owner].pc = "returned" /\ proc[Owner].uuid = NoUuid)
    => /\ proc[Owner].result # NoHandle
       /\ sessions[proc[Owner].name] # NoUuid

\* C15: every value get_session_by_name(name, registry, block) returns is a
\* key h of the registry with registry[h].exploit_uuid = directory[name],
\* the directory being the one after the drain; the call never returns a
\* session while name is absent from the directory, whatever other names
\* and ids directory and registry hold.
C15_ReturnsMatch == []C15_Named /\ [][C15_ReturnStep]_vars

\* a lookup of "b" returned session 2 while session 1, which is gone, had
\* the id recorded for "a"
C15_Witness ==
    /\ proc[Owner].pc = "returned"
    /\ proc[Owner].uuid = NoUuid
    /\ proc[Owner].name = "b"
    /\ proc[Owner].result = 2
    /\ sessions["a"] = "u1"
    /\ sessions["b"] = "u2"
    /\ registry = << [id |-> 2, uuid |-> "u2"] >>

\* a blocking get_session_by_name never raises, and returns only a session
\* with the id of a pair a worker pushed for the name
C16_Step ==
    (InGet /\ proc[Owner].block /\ OwnerStep)
    => /\ proc'[Owner].pc # "raised"
       /\ proc'[Owner].pc = "returned"
          => /\ proc'[Owner].result \in Handles(sessions[proc[Owner].name])
             /\ merged[<<proc[Owner].name, sessions[proc[Owner].name]>>] >= 1

\* the pair of worker w was put and is on its way or in the directory, and
\* the owner is inside a blocking lookup of its name
Polling(w) ==
    /\ InGet
    /\ proc[Owner].block
    /\ proc[Owner].name = WorkerName(w)
    /\ \/ feeder[PairOf(w)] > 0
       \/ Count(queue, PairOf(w)) > 0
       \/ sessions[WorkerName(w)] = WorkerUuid(w)

\* such a lookup returns if the registry holds a session with the id of the
\* pair from some time on
C16_Returns ==
    \A w \in Discoverers :
        (<>[](Handles(WorkerUuid(w)) # {}))
        => [](Polling(w) => <>(proc[Owner].pc = "returned"))

\* C16: a blocking get_session_by_name(name, registry, block=true) that
\* polls returns, under fair scheduling of the owner and of the feeder thread, once a worker has
\* pushed (name, id) and the registry holds a session with that id for
\* good, the queue being drained again in every round; it never raises,
\* and never returns before such a match exists.
C16_BlockingReturns == C16_Returns /\ [][C16_Step]_vars

\* a blocking lookup of "a" has slept in its polling loop (nothing was
\* ever merged) and drains again, now with the pair of worker 1 in the queue
\* and the session with that id in the registry
C16_Witness ==
    /\ proc[Owner].pc = "get_drain"
    /\ proc[Owner].block
    /\ proc[Owner].name = "a"
    /\ proc[Owner].slept
    /\ \A pr \in Pairs : merged[pr] = 0
    /\ queue = << <<"a", "u1">> >>
    /\ Handles("u1") # {}

\* the exploit_uuid process p has attributed to its name in this step
Attributed(p) ==
    IF p = Owner THEN sessions'[proc[p].name]
    ELSE CHOOSE u \in Uuids :
             feeder'[<<proc[p].name, u>>] > feeder[<<proc[p].name, u>>]

\* process p returns from wait_for_increased_session in this step
IncReturns(p) ==
    proc[p].pc \in {"inc_keys", "inc_len", "inc_scan"} /\ proc'[p].pc = "returned"

\* wait_for_increased_session goes on to its scan only when the registry is
\* longer than it was at the call, and returns only from the scan, with a
\* session of the registry that is not among the keys it took at the start
\* and did not exist when the call began, whose exploit_uuid it registers
\* or queues for name
C17_Step ==
    \A p \in Procs :
        /\ (proc[p].pc = "inc_len" /\ proc'[p].pc = "inc_scan")
           => Len(registry) > proc[p].stored_list_len
        /\ IncReturns(p)
           => /\ proc[p].pc = "inc_scan"
              /\ \E i \in 1..Len(registry) :
                    /\ registry[i].uuid = Attributed(p)
                    /\ registry[i].id \notin proc[p].snapshot
                    /\ registry[i].id >= proc[p].first_id
                    /\ p = Owner
                       => varstore'["LAST_MSF_SESSION"] = Str(IntToText(registry[i].id))
              /\ IF p = Owner
                 THEN /\ sessions' = [sessions EXCEPT ![proc[p].name] = Attributed(p)]
                      /\ UNCHANGED <<queue, feeder>>
                 ELSE /\ feeder' = [feeder EXCEPT
                                         ![<<proc[p].name, Attributed(p)>>] = @ + 1]
                      /\ UNCHANGED <<sessions, queue>>

\* C17: wait_for_increased_session(name, ...) returns only after the
\* registry has grown beyond the snapshot taken at the call, and the id it
\* registers or queues for name is that of a session that was absent from
\* the snapshot, never that of a session that existed when the wait began,
\* also when the registry changes between the polls.
C17_OnlyNewSessions == [][C17_Step]_vars

\* worker 1 began to wait on an empty registry, session 1 appeared before
\* it took the keys and has gone since, and it attributed session 2 to its
\* name
C17_Witness ==
    /\ proc[1].pc = "returned"
    /\ proc[1].stored_list_len = 0
    /\ proc[1].snapshot = {1}
    /\ proc[1].first_id = 1
    /\ registry = <<[id |-> 2, uuid |-> "u2"]>>
    /\ queue = << <<"a", "u2">> >>

\* whoever waits and for whatever name, wait_for_increased_session
\* attributes the first session in the order of the registry that is not
\* among the keys it took at the start
C18_Step ==
    \A p \in Procs :
        IncReturns(p)
        => \E i \in 1..Len(registry) :
              /\ registry[i].uuid = Attributed(p)
              /\ registry[i].id \notin proc[p].snapshot
              /\ \A j \in 1..(i - 1) : registry[j].id \in proc[p].snapshot

\* C18: attribution by wait_for_increased_session is ambiguous under
\* concurrency: each waiting discovery takes the first new session it sees,
\* so when two discoveries for different names wait at the same time and
\* two new sessions appear, both names can be attributed the id of the same
\* new session while the other new session is attributed to neither.
C18_FirstNewForAll == [][C18_Step]_vars

\* worker 1 waited for "a" and the owner for "b", both from an empty
\* registry; sessions 1 and 2 appeared, and both discoveries attributed the
\* id of session 1: the worker queued it for "a", the owner registered it
\* for "b", and the id of session 2 went to neither name
C18_Witness ==
    /\ proc[1].pc = "returned"
    /\ proc[Owner].pc = "returned"
    /\ proc[Owner].name = "b"
    /\ proc[1].snapshot = {}
    /\ proc[Owner].snapshot = {}
    /\ registry = <<[id |-> 1, uuid |-> "u1"], [id |-> 2, uuid |-> "u2"]>>
    /\ queue = << <<"a", "u1">> >>
    /\ sessions = [a |-> NoUuid, b |-> "u1"]
    /\ varstore["LAST_MSF_SESSION"] = Str(<<"1">>)
====
